---- MODULE Spec2Model ----
(***************************************************************************)
(* Model of src/main.py: the Flask handler index() of the semantic-sort    *)
(* page, its embedding helper get_hf_embedding(), and the `entries` table  *)
(* it shares with every other request in flight.                           *)
(*                                                                         *)
(* Texts are sequences of characters, embeddings are 2-dimensional integer *)
(* vectors whose Euclidean norm is an integer, so that the similarity      *)
(*     (prev_embs @ query_emb) / (prev_norms * query_norm + 1e-10)         *)
(* is compared exactly.  Python's 0-based positions are 1-based here.      *)
(***************************************************************************)
EXTENDS Integers, Sequences, FiniteSets, TLC

\* ------------------------------------------------------------------ bounds
\* number of requests served in one run (each request id is served once)
NReq == 2

Req == 1..NReq

\* ------------------------------------------------------------ input domains
\* characters of a submitted text; " " is the only whitespace character used
WS == {" "}

\* raw values of the form field user_text (before .strip())
RawTexts == { <<>>, <<" ">>, <<"a">>, <<" ", "b", " ">> }

\* a form without the field user_text
NoField == <<"<missing>">>

Forms == RawTexts \cup {NoField}

Methods == {"GET", "POST"}

\* embeddings the collaborator may return (all of integer norm)
Vecs == { <<1, 0>>, <<0, 1>>, <<0, 0>> }

\* responses of the Hugging Face endpoint: a status code and a JSON object
\* with one top-level key
Responses ==
    [status_code : {200}, key : {"embedding"}, value : Vecs]
    \cup [status_code : {200}, key : {"data"}, value : {<<1, 0>>}]
    \cup [status_code : {503}, key : {"error"}, value : {<<0, 0>>}]

NoResp == [status_code |-> 0, key |-> "", value |-> <<0, 0>>]

\* tie orders the build's np.argsort (default kind, documented as not stable)
\* may leave equal keys in
TieOrders == {"asc", "desc"}

\* the rows of the example of the documentation: texts a, b, c with
\* embeddings [1,0], [0,1] and (for [0.7,0.7], cosine 0.707) [3,4], cosine 0.6
ExampleStore ==
    << [id |-> 1, text |-> <<"a">>, embedding |-> <<1, 0>>],
       [id |-> 2, text |-> <<"b">>, embedding |-> <<0, 1>>],
       [id |-> 3, text |-> <<"c">>, embedding |-> <<3, 4>>] >>

\* rows with an embedding longer than, and one opposite to, the query [1,0]
EdgeStore ==
    << [id |-> 1, text |-> <<"a">>, embedding |-> <<2, 0>>],
       [id |-> 2, text |-> <<"b">>, embedding |-> <<-1, 0>>] >>

\* contents of the table when the application starts
InitStores == { <<>>, ExampleStore, EdgeStore }

VARIABLES
    store,          \* table `entries`, in created_at order
    tieOrder,       \* tie order of this build's argsort
    pc,             \* position of each request in index()
    method,         \* request.method
    form,           \* request.form: the raw field user_text, or NoField
    user_text,      \* user_text after .strip()
    resp,           \* the response get_hf_embedding received
    new_emb,        \* new_emb
    data,           \* data (supa_resp.data)
    original_list,  \* original_list
    sorted_list,    \* sorted_list
    sims,           \* sims, as pairs (dot, product of norms)
    idxs,           \* idxs
    rendered,       \* render_template returned a page
    hf_calls,       \* number of requests.post made to the endpoint
    sim_evals,      \* number of executions of the similarity block
    own,            \* id of the row this request inserted, 0 if none
    before          \* the table just before this request's insert

vars == << store, tieOrder, pc, method, form, user_text, resp, new_emb, data,
           original_list, sorted_list, sims, idxs, rendered, hf_calls,
           sim_evals, own, before >>

\* ------------------------------------------------------------ pure helpers
\* a handler that forgets .strip()
strip_none(s) == s

\* str.strip(): drop leading and trailing whitespace            (main.py:90)
RECURSIVE strip(_)
strip(s) ==
    IF s = <<>> THEN <<>>
    ELSE IF Head(s) \in WS THEN strip(Tail(s))
    ELSE IF s[Len(s)] \in WS THEN strip(SubSeq(s, 1, Len(s) - 1))
    ELSE s

\* a test that holds of the empty list too
truthy_always(x) == TRUE

\* truth value of a str or a list: `if user_text:`, `if prev_records:`
truthy(x) == x # <<>>

\* request.form.get("user_text", "")                            (main.py:90)
form_get(f) == IF f = NoField THEN <<>> ELSE f

\* [row["text"] for row in data]                             (main.py:85,112)
texts_of(rows) == [i \in 1..Len(rows) |-> rows[i].text]

\* u @ v
dot(u, v) == u[1] * v[1] + u[2] * v[2]

\* np.linalg.norm(v); every vector of the model has an integer norm
norm(v) == CHOOSE n \in 0..(dot(v, v)) : n * n = dot(v, v)

\* sims = (prev_embs @ query_emb) / (prev_norms * query_norm + 1e-10)
\* kept as the exact pair (numerator, denominator without the epsilon)
similarities(prev_embs, query_emb) ==
    [i \in 1..Len(prev_embs) |->
        [num |-> dot(prev_embs[i], query_emb),
         den |-> norm(prev_embs[i]) * norm(query_emb)]]

\* a.num/(a.den + eps) > b.num/(b.den + eps) for eps = 1e-10.  Both
\* denominators are positive, so this is
\*     (a.num*b.den - b.num*a.den) + eps*(a.num - b.num) > 0,
\* and since the first term is an integer and |eps*(a.num - b.num)| < 1 the
\* sign is decided by the first term, then by the second.
sim_gt(a, b) ==
    LET x == a.num * b.den - b.num * a.den
    IN  x > 0 \/ (x = 0 /\ a.num > b.num)

sim_eq(a, b) == ~sim_gt(a, b) /\ ~sim_gt(b, a)

\* a sort whose order of equal values changes from one call to the next
argsort_varying(s, kind) ==
    LET n == Len(s)
        k2 == IF \E q \in Req : pc[q] = "done" THEN "desc" ELSE "asc"
        first(x, y) ==
            \/ sim_gt(s[y], s[x])
            \/ /\ sim_eq(s[x], s[y])
               /\ IF k2 = "asc" THEN x < y ELSE x > y
        place(x) == 1 + Cardinality({y \in 1..n : first(y, x)})
    IN  [k \in 1..n |-> CHOOSE x \in 1..n : place(x) = k]

\* np.argsort(s): the positions of s in ascending order of value; equal
\* values are left in the tie order `kind` of the build
argsort(s, kind) ==
    LET n == Len(s)
        first(x, y) ==
            \/ sim_gt(s[y], s[x])
            \/ /\ sim_eq(s[x], s[y])
               /\ IF kind = "asc" THEN x < y ELSE x > y
        place(x) == 1 + Cardinality({y \in 1..n : first(y, x)})
    IN  [k \in 1..n |-> CHOOSE x \in 1..n : place(x) = k]

\* a ranking that forgets [::-1]
reversed_none(a) == a

\* a[::-1]
reversed(a) == [i \in 1..Len(a) |-> a[Len(a) + 1 - i]]

\* a helper that only looks at the status code
hf_ok_status_only(r) == r.status_code = 200

\* get_hf_embedding after the response arrived: the embedding, or the
\* RuntimeError of a non-200 status or of a body without "embedding"
hf_ok(r) == r.status_code = 200 /\ r.key = "embedding"

\* a list with the query after the candidates
build_sorted_query_last(query_text, prev_texts, ix) ==
    [k \in 1..Len(ix) |-> prev_texts[ix[k]]] \o <<query_text>>

\* [query_record["text"]] + [prev_texts[i] for i in idxs]      (main.py:134)
build_sorted(query_text, prev_texts, ix) ==
    <<query_text>> \o [k \in 1..Len(ix) |-> prev_texts[ix[k]]]

\* data[1:-1]
all_but_first_and_last(rows) == SubSeq(rows, 2, Len(rows) - 1)

\* data[:-1]
all_but_last(rows) == SubSeq(rows, 1, Len(rows) - 1)

\* an insert that puts the row first
insert_row_first(tbl, text, emb) ==
    <<[id |-> Len(tbl) + 1, text |-> text, embedding |-> emb]>> \o tbl

\* supabase.table("entries").insert(payload): the row becomes the newest
insert_row(tbl, text, emb) ==
    Append(tbl, [id |-> Len(tbl) + 1, text |-> text, embedding |-> emb])

\* ------------------------------------------------------------------- state
Init ==
    /\ store \in InitStores
    /\ tieOrder \in TieOrders
    /\ pc = [r \in Req |-> "idle"]
    /\ method = [r \in Req |-> "GET"]
    /\ form = [r \in Req |-> NoField]
    /\ user_text = [r \in Req |-> <<>>]
    /\ resp = [r \in Req |-> NoResp]
    /\ new_emb = [r \in Req |-> <<0, 0>>]
    /\ data = [r \in Req |-> <<>>]
    /\ original_list = [r \in Req |-> <<>>]
    /\ sorted_list = [r \in Req |-> <<>>]
    /\ sims = [r \in Req |-> <<>>]
    /\ idxs = [r \in Req |-> <<>>]
    /\ rendered = [r \in Req |-> FALSE]
    /\ hf_calls = [r \in Req |-> 0]
    /\ sim_evals = [r \in Req |-> 0]
    /\ own = [r \in Req |-> 0]
    /\ before = [r \in Req |-> <<>>]

\* ----------------------------------------------------------------- actions
\* index(), lines 76-93: the first fetch; for a request without text the
\* rendering of lines 140-144; for a POST with text the call of
\* get_hf_embedding (lines 44-55), which returns the embedding or raises.
\* Requests are numbered in the order they arrive.
Start(r, m, f, response) ==
    /\ pc[r] = "idle"
    /\ \A q \in Req : q < r => pc[q] # "idle"
    /\ m = "GET" => f = NoField
    /\ method' = [method EXCEPT ![r] = m]
    /\ form' = [form EXCEPT ![r] = f]
    /\ data' = [data EXCEPT ![r] = store]
    /\ original_list' = [original_list EXCEPT ![r] = texts_of(store)]
    /\ sorted_list' = [sorted_list EXCEPT ![r] = <<>>]
    /\ LET t == IF m = "POST" THEN strip(form_get(f)) ELSE <<>>
       IN  /\ user_text' = [user_text EXCEPT ![r] = t]
           /\ IF m = "POST" /\ truthy(t)
              THEN /\ hf_calls' = [hf_calls EXCEPT ![r] = @ + 1]
                   /\ resp' = [resp EXCEPT ![r] = response]
                   /\ UNCHANGED rendered
                   /\ IF hf_ok(response)
                      THEN /\ new_emb' = [new_emb EXCEPT ![r] =
                                             response.value]
                           /\ pc' = [pc EXCEPT ![r] = "insert"]
                      ELSE /\ pc' = [pc EXCEPT ![r] = "error"]
                           /\ UNCHANGED new_emb
              ELSE /\ pc' = [pc EXCEPT ![r] = "done"]
                   /\ rendered' = [rendered EXCEPT ![r] = TRUE]
                   /\ UNCHANGED << hf_calls, resp, new_emb >>
    /\ UNCHANGED << store, tieOrder, sims, idxs, sim_evals, own, before >>

\* index(), lines 96-101: insert the new entry
Insert(r) ==
    /\ pc[r] = "insert"
    /\ store' = insert_row(store, user_text[r], new_emb[r])
    /\ own' = [own EXCEPT ![r] = Len(store) + 1]
    /\ before' = [before EXCEPT ![r] = store]
    /\ pc' = [pc EXCEPT ![r] = "refetch"]
    /\ UNCHANGED << tieOrder, method, form, user_text, resp, new_emb, data,
                    original_list, sorted_list, sims, idxs, rendered,
                    hf_calls, sim_evals >>

\* index(), lines 104-144: fetch all entries again, rank them against the
\* last row and render
Rank(r) ==
    /\ pc[r] = "refetch"
    /\ data' = [data EXCEPT ![r] = store]
    /\ original_list' = [original_list EXCEPT ![r] = texts_of(store)]
    /\ LET query_record == store[Len(store)]
           query_emb == query_record.embedding
           prev_records == all_but_last(store)
           prev_texts == texts_of(prev_records)
           prev_embs == [i \in 1..Len(prev_records) |->
                            prev_records[i].embedding]
           sm == similarities(prev_embs, query_emb)
           ix == reversed(argsort(sm, tieOrder))
       IN  IF truthy(prev_records)
           THEN /\ sims' = [sims EXCEPT ![r] = sm]
                /\ idxs' = [idxs EXCEPT ![r] = ix]
                /\ sim_evals' = [sim_evals EXCEPT ![r] = @ + 1]
                /\ sorted_list' = [sorted_list EXCEPT ![r] =
                       build_sorted(query_record.text, prev_texts, ix)]
           ELSE /\ sorted_list' = [sorted_list EXCEPT ![r] =
                       <<query_record.text>>]
                /\ UNCHANGED << sims, idxs, sim_evals >>
    /\ rendered' = [rendered EXCEPT ![r] = TRUE]
    /\ pc' = [pc EXCEPT ![r] = "done"]
    /\ UNCHANGED << store, tieOrder, method, form, user_text, resp, new_emb,
                    hf_calls, own, before >>

Next ==
    \/ \E r \in Req, m \in Methods, f \in Forms, response \in Responses :
           Start(r, m, f, response)
    \/ \E r \in Req : Insert(r)
    \/ \E r \in Req : Rank(r)

Spec == Init /\ [][Next]_vars

\* ------------------------------------------------------------- properties
\* a POST with non-blank text that has completed
posted(r) == pc[r] = "done" /\ method[r] = "POST" /\ user_text[r] # <<>>

\* the query entry and the candidates of a completed POST
query_of(r) == data[r][Len(data[r])]
cands_of(r) == SubSeq(data[r], 1, Len(data[r]) - 1)

\* similarity of candidate i of request r to its query, from the rows
sim_of(r, i) ==
    [num |-> dot(data[r][i].embedding, query_of(r).embedding),
     den |-> norm(data[r][i].embedding) * norm(query_of(r).embedding)]

\* similarity of the query of request r to itself
self_sim(r) ==
    [num |-> dot(query_of(r).embedding, query_of(r).embedding),
     den |-> norm(query_of(r).embedding) * norm(query_of(r).embedding)]

\* the place of candidate i of request r in its sorted_list (0 if none)
place_of(r, i) ==
    IF \E k \in 1..Len(idxs[r]) : idxs[r][k] = i
    THEN 1 + (CHOOSE k \in 1..Len(idxs[r]) : idxs[r][k] = i)
    ELSE 0

\* sorted_list lists the candidates as idxs orders them
listed(r) ==
    /\ Len(idxs[r]) = Len(sorted_list[r]) - 1
    /\ \A k \in 1..Len(idxs[r]) :
          /\ idxs[r][k] \in 1..Len(cands_of(r))
          /\ sorted_list[r][k + 1] = data[r][idxs[r][k]].text

\* number of occurrences of x in the sequence q
count(q, x) == Cardinality({k \in 1..Len(q) : q[k] = x})

\* C1: after every completed POST with non-blank text, sorted_list has the
\* text of the query entry (the last row fetched) at position 0, whatever the
\* similarity of the other entries.
C1_QueryFirst ==
    \A r \in Req : posted(r) =>
        /\ sorted_list[r] # <<>>
        /\ sorted_list[r][1] = query_of(r).text

\* a completed POST with a candidate more similar to the query than the
\* query is to itself, and whose text differs from the query's
C1_Witness ==
    \E r \in Req : posted(r) /\
        \E i \in 1..Len(cands_of(r)) :
            /\ sim_gt(sim_of(r, i), self_sim(r))
            /\ data[r][i].text # query_of(r).text

\* C2: in the ranked output a candidate of greater similarity to the query
\* precedes every candidate of smaller similarity; the documented example
\* (query [1,0]; candidates a, b, c) comes out as query, a, c, b.
C2_Descending ==
    \A r \in Req : posted(r) /\ Len(data[r]) > 1 =>
        /\ listed(r)
        /\ \A a, b \in 1..Len(cands_of(r)) :
              sim_gt(sim_of(r, a), sim_of(r, b)) =>
                  /\ place_of(r, a) > 0
                  /\ place_of(r, a) < place_of(r, b)
        /\ (cands_of(r) = ExampleStore /\ query_of(r).embedding = <<1, 0>>)
              => sorted_list[r] =
                     << query_of(r).text, <<"a">>, <<"c">>, <<"b">> >>

\* the documented example has been ranked
C2_Witness ==
    \E r \in Req :
        /\ posted(r)
        /\ cands_of(r) = ExampleStore
        /\ query_of(r).embedding = <<1, 0>>
        /\ sorted_list[r] = << query_of(r).text, <<"a">>, <<"c">>, <<"b">> >>

\* C3: candidates of equal similarity keep their input order in the ranked
\* output (stability).
C3_Stable ==
    \A r \in Req : posted(r) /\ Len(data[r]) > 1 =>
        \A a, b \in 1..Len(cands_of(r)) :
            (a < b /\ sim_eq(sim_of(r, a), sim_of(r, b))) =>
                place_of(r, a) < place_of(r, b)

\* C4: the first element of a request's sorted_list is the text this same
\* request submitted, under every interleaving of requests.
C4_OwnQuery ==
    \A r \in Req : posted(r) =>
        /\ sorted_list[r] # <<>>
        /\ sorted_list[r][1] = user_text[r]

\* C5: sorted_list is the query followed by a permutation of the other
\* entries: as long as original_list, every candidate exactly once.
C5_Permutation ==
    \A r \in Req : posted(r) =>
        /\ Len(sorted_list[r]) = Len(original_list[r])
        /\ \A i \in 1..Len(original_list[r]) :
              count(sorted_list[r], original_list[r][i])
                  = count(original_list[r], original_list[r][i])
        /\ Len(data[r]) > 1 =>
              /\ listed(r)
              /\ \A i \in 1..Len(cands_of(r)) :
                    Cardinality({k \in 1..Len(idxs[r]) : idxs[r][k] = i}) = 1

\* a completed POST that ranked at least three candidates
C5_Witness ==
    \E r \in Req : posted(r) /\ Len(sorted_list[r]) >= 4

\* C6: when the query is the only entry, sorted_list is exactly the query's
\* text and the similarity block is not executed.
C6_EmptyCandidates ==
    \A r \in Req : posted(r) /\ Len(data[r]) = 1 =>
        /\ sorted_list[r] = << data[r][1].text >>
        /\ sim_evals[r] = 0
        /\ sims[r] = <<>>

\* the first-ever submission has completed
C6_Witness ==
    \E r \in Req :
        /\ posted(r)
        /\ Len(data[r]) = 1
        /\ sorted_list[r] = << user_text[r] >>

append_step ==
    store' # store =>
        \E r \in Req :
            /\ pc[r] = "insert" /\ pc'[r] = "refetch"
            /\ Len(store') = Len(store) + 1
            /\ SubSeq(store', 1, Len(store)) = store
            /\ store'[Len(store')].text = user_text[r]
            /\ store'[Len(store')].embedding = new_emb[r]

\* the row a request inserted stays where and what it was
own_row_kept(r) ==
    own[r] # 0 =>
        /\ own[r] = Len(before[r]) + 1
        /\ own[r] <= Len(store)
        /\ SubSeq(store, 1, own[r] - 1) = before[r]
        /\ store[own[r]].text = user_text[r]
        /\ store[own[r]].embedding = new_emb[r]

C9_EmbeddingFailure ==
    /\ [](\A r \in Req :
            (hf_calls[r] > 0 /\
             (resp[r].status_code # 200 \/ resp[r].key # "embedding")) =>
                /\ pc[r] = "error"
                /\ own[r] = 0
                /\ ~rendered[r]
                /\ sorted_list[r] = <<>>)
    /\ [][\A r \in Req :
            /\ (pc[r] = "idle" /\ pc'[r] = "error") => store' = store
            /\ pc[r] = "error" => pc'[r] = "error"]_vars

\* both kinds of failure have happened, with entries in the store
C9_Witness ==
    /\ store # <<>>
    /\ \E r \in Req : pc[r] = "error" /\ resp[r].status_code = 503
    /\ \E r \in Req :
          pc[r] = "error" /\ resp[r].status_code = 200 /\ resp[r].key = "data"

\* the field user_text is missing, empty or only whitespace
blank(f) == f = NoField \/ \A i \in 1..Len(f) : f[i] \in WS

\* C10: a GET, or a POST whose user_text is missing, empty or whitespace,
\* leaves the store unchanged, calls no embedding, renders original_list as
\* the current texts and sorted_list empty.
C10_NoText ==
    /\ [][\A r \in Req :
            (pc[r] = "idle" /\ pc'[r] # "idle" /\
             (method'[r] = "GET" \/ blank(form'[r]))) =>
                /\ store' = store
                /\ pc'[r] = "done"
                /\ rendered'[r]
                /\ hf_calls'[r] = 0
                /\ original_list'[r] = texts_of(store')
                /\ sorted_list'[r] = <<>>]_vars
    /\ [](\A r \in Req :
            (pc[r] # "idle" /\ (method[r] = "GET" \/ blank(form[r]))) =>
                /\ pc[r] = "done"
                /\ own[r] = 0
                /\ hf_calls[r] = 0
                /\ sorted_list[r] = <<>>)

\* a whitespace-only POST and a GET have been served on a non-empty store
C10_Witness ==
    /\ \E r \in Req :
          /\ pc[r] = "done" /\ method[r] = "POST" /\ form[r] = <<" ">>
          /\ original_list[r] # <<>>
    /\ \E r \in Req : pc[r] = "done" /\ method[r] = "GET"

====
